---- MODULE Spec2Model ----
(***************************************************************************)
(* Hamiltonian cycles on a cylindrical grid: cycle_generator.py.           *)
(*                                                                         *)
(* generate_cycle builds the serpentine path cell by cell, and, when       *)
(* flips is non-zero, converts it to an adjacency map, runs _random_flips  *)
(* (speculative 2x2 edge swap, traversal check, rollback) and converts the *)
(* adjacency map back to a path.  The random generator is modelled by the  *)
(* anchors it returns: every attempt draws x in 0..width-1 and y in        *)
(* 0..height-2.  Adjacency lists are Python lists: remove() deletes the    *)
(* first occurrence and append() adds at the end, so their order is state. *)
(*                                                                         *)
(* Two runs are executed side by side on the same arguments and the same   *)
(* draws: `run` with any reporting flags, `twin` with reporting disabled.  *)
(***************************************************************************)
EXTENDS Integers, Sequences, FiniteSets, TLC

VARIABLES run, twin, rot

vars == <<run, twin, rot>>

\* Largest dimension tried; dimensions range over -2..MaxDim.
MaxDim == 4
\* Largest number of requested flip attempts.
MaxFlips == 3

Dims == (-2)..MaxDim

\* prev = None in _adj_to_path: a value that is no grid cell.
NoPoint == <<-1, -1>>

Range(s) == {s[k] : k \in DOMAIN s}

(***************************************************************************)
(* Python list operations on adjacency lists                               *)
(***************************************************************************)
\* b in adj[a]
InList(s, e) == \E k \in DOMAIN s : s[k] = e

\* list.remove(e): delete the first occurrence of e.
ListRemove(s, e) ==
    IF ~InList(s, e) THEN s
    ELSE LET k == CHOOSE m \in DOMAIN s :
                      s[m] = e /\ \A q \in 1..(m - 1) : s[q] # e
         IN  SubSeq(s, 1, k - 1) \o SubSeq(s, k + 1, Len(s))

\* adj[a].append(b); adj[b].append(a)
AddEdge(adj, a, b) ==
    LET adj1 == [adj EXCEPT ![a] = Append(@, b)]
    IN  [adj1 EXCEPT ![b] = Append(@, a)]

\* adj[a].remove(b); adj[b].remove(a)
RemoveEdge(adj, a, b) ==
    LET adj1 == [adj EXCEPT ![a] = ListRemove(@, b)]
    IN  [adj1 EXCEPT ![b] = ListRemove(@, a)]

RECURSIVE RemoveEdges(_, _)
RemoveEdges(adj, edges) ==
    IF edges = <<>> THEN adj
    ELSE RemoveEdges(RemoveEdge(adj, edges[1][1], edges[1][2]), Tail(edges))

RECURSIVE AddEdges(_, _)
AddEdges(adj, edges) ==
    IF edges = <<>> THEN adj
    ELSE AddEdges(AddEdge(adj, edges[1][1], edges[1][2]), Tail(edges))

(***************************************************************************)
(* _path_to_adj                                                            *)
(***************************************************************************)
RECURSIVE ZipPairs(_, _, _)
ZipPairs(adj, path, k) ==
    IF k >= Len(path) THEN adj
    ELSE ZipPairs(AddEdge(adj, path[k], path[k + 1]), path, k + 1)

\* Defined for a non-empty path; path[0] of an empty path raises IndexError,
\* which generate_cycle_flips_begin models.
path_to_adj(path) ==
    LET adj0 == [p \in Range(path) |-> <<>>]
    IN  AddEdge(ZipPairs(adj0, path, 1), path[1], path[Len(path)])

(***************************************************************************)
(* _adj_to_path                                                            *)
(***************************************************************************)
\* Variant: the neighbour is compared with the current cell, not with prev.
RECURSIVE WalkNoPrev(_, _, _, _, _, _)
WalkNoPrev(adj, start, prev, current, path, fuel) ==
    LET nbrs == adj[current]
        nxt  == IF nbrs[1] # current THEN nbrs[1] ELSE nbrs[2]
    IN  IF nxt = start THEN path
        ELSE IF fuel = 0 THEN Append(path, nxt)
        ELSE WalkNoPrev(adj, start, current, nxt, Append(path, nxt), fuel - 1)

\* The while-True loop, cut after `fuel` appended cells.
RECURSIVE Walk(_, _, _, _, _, _)
Walk(adj, start, prev, current, path, fuel) ==
    LET nbrs == adj[current]
        nxt  == IF nbrs[1] # prev THEN nbrs[1] ELSE nbrs[2]
    IN  IF nxt = start THEN path
        ELSE IF fuel = 0 THEN Append(path, nxt)
        ELSE Walk(adj, start, current, nxt, Append(path, nxt), fuel - 1)

adj_to_path(adj, start) ==
    Walk(adj, start, NoPoint, start, <<start>>, Cardinality(DOMAIN adj))

(***************************************************************************)
(* generate_cycle                                                          *)
(***************************************************************************)
InitRun(w, h, k, p, v) ==
    [width |-> w, height |-> h, flips |-> k, progress |-> p, verbose |-> v,
     pc |-> "start", x |-> 0, j |-> 0, path |-> <<>>, count |-> 0,
     total |-> 0, adj |-> <<>>, i |-> 0, ax |-> 0, ay |-> 0,
     performed |-> FALSE, performed_total |-> 0,
     edges_remove |-> <<>>, edges_add |-> <<>>,
     before |-> <<>>, draws |-> 0, out |-> <<>>]

\* Lines 125-130: the parity test, then path = [], total, count.
generate_cycle_validate(st) ==
    IF st.width % 2 # 0 \/ st.height % 2 # 0
    THEN [st EXCEPT !.pc = "ValueError"]
    ELSE [st EXCEPT !.pc = "build", !.total = st.width * st.height]

\* Variant: every column is listed with y ascending.
ys_at_ascending(x, j, height) == j

\* ys = range(height) if x % 2 == 0 else reversed(range(height)); the j-th
\* value of ys.
ys_at(x, j, height) == IF x % 2 = 0 THEN j ELSE height - 1 - j

\* The loops of lines 132-138 still have a cell to emit.
build_more(st) == st.x < st.width /\ st.j < st.height

\* Variant: the cell is appended only when progress is reported.
generate_cycle_cell_quiet(st) ==
    LET cell == <<st.x, ys_at(st.x, st.j, st.height)>>
        last == st.j + 1 >= st.height
    IN  [st EXCEPT !.path = IF st.progress THEN Append(@, cell) ELSE @,
                   !.count = @ + 1,
                   !.out = IF st.progress
                           THEN Append(@, <<"generating", st.count + 1, st.total>>)
                           ELSE @,
                   !.x = IF last THEN @ + 1 ELSE @,
                   !.j = IF last THEN 0 ELSE @ + 1]

\* Variant: the inner loop stops one row early.
generate_cycle_cell_short(st) ==
    LET cell == <<st.x, ys_at(st.x, st.j, st.height)>>
        last == st.j + 2 >= st.height
    IN  [st EXCEPT !.path = Append(@, cell),
                   !.count = @ + 1,
                   !.out = IF st.progress
                           THEN Append(@, <<"generating", st.count + 1, st.total>>)
                           ELSE @,
                   !.x = IF last THEN @ + 1 ELSE @,
                   !.j = IF last THEN 0 ELSE @ + 1]

\* Variant: the count is reported before it is incremented.
generate_cycle_cell_stale(st) ==
    LET cell == <<st.x, ys_at(st.x, st.j, st.height)>>
        last == st.j + 1 >= st.height
    IN  [st EXCEPT !.path = Append(@, cell),
                   !.count = @ + 1,
                   !.out = IF st.progress
                           THEN Append(@, <<"generating", st.count, st.total>>)
                           ELSE @,
                   !.x = IF last THEN @ + 1 ELSE @,
                   !.j = IF last THEN 0 ELSE @ + 1]

\* Lines 135-138: one iteration of the inner loop.
generate_cycle_cell(st) ==
    LET cell == <<st.x, ys_at(st.x, st.j, st.height)>>
        last == st.j + 1 >= st.height
    IN  [st EXCEPT !.path = Append(@, cell),
                   !.count = @ + 1,
                   !.out = IF st.progress
                           THEN Append(@, <<"generating", st.count + 1, st.total>>)
                           ELSE @,
                   !.x = IF last THEN @ + 1 ELSE @,
                   !.j = IF last THEN 0 ELSE @ + 1]

\* Variant: the adjacency view is built and traversed although flips = 0.
generate_cycle_return_via_adj(st) ==
    [st EXCEPT !.out = IF st.progress THEN Append(@, <<"newline">>) ELSE @,
               !.adj = IF st.path = <<>> THEN @ ELSE path_to_adj(st.path),
               !.pc = "done"]

\* Lines 139-149 with flips = 0: the newline and the return.
generate_cycle_return(st) ==
    [st EXCEPT !.out = IF st.progress THEN Append(@, <<"newline">>) ELSE @,
               !.pc = "done"]

\* Lines 139-145 with flips # 0: the newline, _path_to_adj, the generator and
\* the entry into _random_flips (performed_total = 0).
generate_cycle_flips_begin(st) ==
    LET out1 == IF st.progress THEN Append(st.out, <<"newline">>) ELSE st.out
    IN  IF st.path = <<>>
        THEN [st EXCEPT !.out = out1, !.pc = "IndexError"]
        ELSE [st EXCEPT !.out = out1, !.adj = path_to_adj(st.path),
                        !.i = 0, !.performed_total = 0, !.pc = "draw"]

(***************************************************************************)
(* _random_flips                                                           *)
(***************************************************************************)
\* Variant: the second case does not test that the replacement edges are
\* absent.
random_flips_draw_loose(st, ax, ay) ==
    LET x1 == (ax + 1) % st.width
        y1 == ay + 1
        v0 == <<ax, ay>>
        v1 == <<x1, ay>>
        v2 == <<ax, y1>>
        v3 == <<x1, y1>>
        adj == st.adj
        first  == InList(adj[v0], v1) /\ InList(adj[v2], v3)
                  /\ ~InList(adj[v0], v2) /\ ~InList(adj[v1], v3)
        second == InList(adj[v0], v2) /\ InList(adj[v1], v3)
        edges_remove == IF first THEN << <<v0, v1>>, <<v2, v3>> >>
                        ELSE IF second THEN << <<v0, v2>>, <<v1, v3>> >>
                        ELSE <<>>
        edges_add == IF first THEN << <<v0, v2>>, <<v1, v3>> >>
                     ELSE IF second THEN << <<v0, v1>>, <<v2, v3>> >>
                     ELSE <<>>
    IN  [st EXCEPT !.ax = ax, !.ay = ay, !.draws = @ + 2,
                   !.performed = FALSE,
                   !.before = adj,
                   !.edges_remove = edges_remove,
                   !.edges_add = edges_add,
                   !.adj = IF edges_remove # <<>>
                           THEN AddEdges(RemoveEdges(adj, edges_remove), edges_add)
                           ELSE adj,
                   !.pc = IF edges_remove # <<>> THEN "verify" ELSE "report"]

\* Lines 64-85: the two draws, the square, the proposal and its application.
\* `before` records the adjacency view the attempt started from.
random_flips_draw(st, ax, ay) ==
    LET x1 == (ax + 1) % st.width
        y1 == ay + 1
        v0 == <<ax, ay>>
        v1 == <<x1, ay>>
        v2 == <<ax, y1>>
        v3 == <<x1, y1>>
        adj == st.adj
        first  == InList(adj[v0], v1) /\ InList(adj[v2], v3)
                  /\ ~InList(adj[v0], v2) /\ ~InList(adj[v1], v3)
        second == InList(adj[v0], v2) /\ InList(adj[v1], v3)
                  /\ ~InList(adj[v0], v1) /\ ~InList(adj[v2], v3)
        edges_remove == IF first THEN << <<v0, v1>>, <<v2, v3>> >>
                        ELSE IF second THEN << <<v0, v2>>, <<v1, v3>> >>
                        ELSE <<>>
        edges_add == IF first THEN << <<v0, v2>>, <<v1, v3>> >>
                     ELSE IF second THEN << <<v0, v1>>, <<v2, v3>> >>
                     ELSE <<>>
    IN  [st EXCEPT !.ax = ax, !.ay = ay, !.draws = @ + 2,
                   !.performed = FALSE,
                   !.before = adj,
                   !.edges_remove = edges_remove,
                   !.edges_add = edges_add,
                   !.adj = IF edges_remove # <<>>
                           THEN AddEdges(RemoveEdges(adj, edges_remove), edges_add)
                           ELSE adj,
                   !.pc = IF edges_remove # <<>> THEN "verify" ELSE "report"]

\* Line 86: len(_adj_to_path(adj, v0)) == width * height
swap_is_cycle(st) ==
    Len(adj_to_path(st.adj, <<st.ax, st.ay>>)) = st.width * st.height

\* Variant: the swap is trusted without the traversal check.
random_flips_verify_trusting(st) ==
    [st EXCEPT !.performed = TRUE,
               !.performed_total = @ + 1,
               !.pc = "report"]

\* Variant: a swap that splits the tour is not reverted.
random_flips_verify_norevert(st) ==
    IF swap_is_cycle(st)
    THEN [st EXCEPT !.performed = TRUE,
                    !.performed_total = @ + 1,
                    !.pc = "report"]
    ELSE [st EXCEPT !.pc = "report"]

\* Variant: the success counter is incremented for every proposed swap.
random_flips_verify_overcount(st) ==
    IF swap_is_cycle(st)
    THEN [st EXCEPT !.performed = TRUE,
                    !.performed_total = @ + 1,
                    !.pc = "report"]
    ELSE [st EXCEPT !.adj = AddEdges(RemoveEdges(st.adj, st.edges_add),
                                     st.edges_remove),
                    !.performed_total = @ + 1,
                    !.pc = "report"]

\* Variant: the revert restores the removed edges but leaves the added ones.
random_flips_verify_halfrevert(st) ==
    IF swap_is_cycle(st)
    THEN [st EXCEPT !.performed = TRUE,
                    !.performed_total = @ + 1,
                    !.pc = "report"]
    ELSE [st EXCEPT !.adj = AddEdges(st.adj, st.edges_remove),
                    !.pc = "report"]

\* Lines 86-93: keep the swap or revert it.
random_flips_verify(st) ==
    IF swap_is_cycle(st)
    THEN [st EXCEPT !.performed = TRUE,
                    !.performed_total = @ + 1,
                    !.pc = "report"]
    ELSE [st EXCEPT !.adj = AddEdges(RemoveEdges(st.adj, st.edges_add),
                                     st.edges_remove),
                    !.pc = "report"]

\* Lines 95-106: the reports of one attempt, then the next i.
random_flips_report(st) ==
    LET out1 == IF st.verbose
                THEN Append(st.out, <<"flip", st.i + 1, st.ax, st.ay, st.performed>>)
                ELSE st.out
        out2 == IF st.progress
                THEN Append(out1, <<"flipping", st.i + 1, st.flips, st.performed_total>>)
                ELSE out1
    IN  [st EXCEPT !.out = out2, !.i = @ + 1, !.pc = "draw"]

\* Variant: the final traversal starts at the last anchor, not at path[0].
random_flips_end_anchor(st) ==
    LET out1 == IF st.progress /\ ~st.verbose
                THEN Append(st.out, <<"newline">>) ELSE st.out
        out2 == IF st.progress \/ st.verbose
                THEN Append(out1, <<"performed", st.performed_total, st.flips>>)
                ELSE out1
    IN  [st EXCEPT !.out = out2,
                   !.path = adj_to_path(st.adj, <<st.ax, st.ay>>),
                   !.pc = "done"]

\* Lines 108-112 and 147-149: the summary, then path = _adj_to_path(adj,
\* path[0]) and the return.
random_flips_end(st) ==
    LET out1 == IF st.progress /\ ~st.verbose
                THEN Append(st.out, <<"newline">>) ELSE st.out
        out2 == IF st.progress \/ st.verbose
                THEN Append(out1, <<"performed", st.performed_total, st.flips>>)
                ELSE out1
    IN  [st EXCEPT !.out = out2,
                   !.path = adj_to_path(st.adj, st.path[1]),
                   !.pc = "done"]

(***************************************************************************)
(* The step a run takes from its own position, given the draws offered.    *)
(***************************************************************************)
Advance(st, ax, ay) ==
    CASE st.pc = "start" -> generate_cycle_validate(st)
      [] st.pc = "build" /\ build_more(st) -> generate_cycle_cell(st)
      [] st.pc = "build" /\ ~build_more(st) /\ st.flips = 0 ->
            generate_cycle_return(st)
      [] st.pc = "build" /\ ~build_more(st) /\ st.flips # 0 ->
            generate_cycle_flips_begin(st)
      [] st.pc = "draw" /\ st.i < st.flips -> random_flips_draw(st, ax, ay)
      [] st.pc = "draw" /\ st.i >= st.flips -> random_flips_end(st)
      [] st.pc = "verify" -> random_flips_verify(st)
      [] st.pc = "report" -> random_flips_report(st)
      [] OTHER -> st

(***************************************************************************)
(* Global rotation mutator (section 4.5 of the design)                     *)
(***************************************************************************)
NoRot == [has |-> FALSE, offset |-> 0, reverse |-> FALSE, path |-> <<>>]

Reverse(s) == [k \in 1..Len(s) |-> s[Len(s) + 1 - k]]

\* Variant: the part before the offset is appended reversed.
rotate_cycle_mirrored(path, offset, reverse) ==
    LET n == Len(path)
        rotated == [k \in 1..n |->
                      IF k <= n - offset THEN path[k + offset] ELSE path[n + 1 - k]]
    IN  IF reverse THEN Reverse(rotated) ELSE rotated

\* Rotate the path to start at index `offset` (0-based), then optionally
\* reverse the traversal direction.
rotate_cycle(path, offset, reverse) ==
    LET n == Len(path)
        rotated == [k \in 1..n |-> path[((k - 1 + offset) % n) + 1]]
    IN  IF reverse THEN Reverse(rotated) ELSE rotated

(***************************************************************************)
(* State machine                                                           *)
(***************************************************************************)
Init ==
    /\ \E w \in Dims, h \in Dims, k \in 0..MaxFlips, p \in BOOLEAN, v \in BOOLEAN :
          /\ run = InitRun(w, h, k, p, v)
          /\ twin = InitRun(w, h, k, FALSE, FALSE)
    /\ rot = NoRot

Validate ==
    /\ run.pc = "start"
    /\ run' = generate_cycle_validate(run)
    /\ twin' = Advance(twin, 0, 0)
    /\ UNCHANGED rot

BuildCell ==
    /\ run.pc = "build" /\ build_more(run)
    /\ run' = generate_cycle_cell(run)
    /\ twin' = Advance(twin, 0, 0)
    /\ UNCHANGED rot

Return ==
    /\ run.pc = "build" /\ ~build_more(run) /\ run.flips = 0
    /\ run' = generate_cycle_return(run)
    /\ twin' = Advance(twin, 0, 0)
    /\ UNCHANGED rot

FlipsBegin ==
    /\ run.pc = "build" /\ ~build_more(run) /\ run.flips # 0
    /\ run' = generate_cycle_flips_begin(run)
    /\ twin' = Advance(twin, 0, 0)
    /\ UNCHANGED rot

FlipDraw ==
    /\ run.pc = "draw" /\ run.i < run.flips
    /\ \E ax \in 0..(run.width - 1), ay \in 0..(run.height - 2) :
          /\ run' = random_flips_draw(run, ax, ay)
          /\ twin' = Advance(twin, ax, ay)
    /\ UNCHANGED rot

FlipVerify ==
    /\ run.pc = "verify"
    /\ run' = random_flips_verify(run)
    /\ twin' = Advance(twin, 0, 0)
    /\ UNCHANGED rot

FlipReport ==
    /\ run.pc = "report"
    /\ run' = random_flips_report(run)
    /\ twin' = Advance(twin, 0, 0)
    /\ UNCHANGED rot

FlipsEnd ==
    /\ run.pc = "draw" /\ run.i >= run.flips
    /\ run' = random_flips_end(run)
    /\ twin' = Advance(twin, 0, 0)
    /\ UNCHANGED rot

Next ==
    \/ Validate
    \/ BuildCell
    \/ Return
    \/ FlipsBegin
    \/ FlipDraw
    \/ FlipVerify
    \/ FlipReport
    \/ FlipsEnd

Spec == Init /\ [][Next]_vars

\* The rotation mutator applied to a finished cycle.
Rotate ==
    /\ run.pc = "done" /\ run.path # <<>> /\ ~rot.has
    /\ \E offset \in 0..(Len(run.path) - 1), reverse \in BOOLEAN :
          rot' = [has |-> TRUE, offset |-> offset, reverse |-> reverse,
                  path |-> rotate_cycle(run.path, offset, reverse)]
    /\ UNCHANGED <<run, twin>>

NextRot ==
    \/ Next
    \/ Rotate

SpecRot == Init /\ [][NextRot]_vars

(***************************************************************************)
(* Vocabulary of the properties                                            *)
(***************************************************************************)
Abs(n) == IF n < 0 THEN -n ELSE n

\* The cylindrical rule: same x and |dy| = 1, or same y and horizontal
\* wrap-around distance 1.
Adjacent(a, b, width) ==
    LET dx == Abs(a[1] - b[1])
        dy == Abs(a[2] - b[2])
        wrap == IF dx < width - dx THEN dx ELSE width - dx
    IN  \/ dx = 0 /\ dy = 1
        \/ dy = 0 /\ wrap = 1

Grid(width, height) == (0..(width - 1)) \X (0..(height - 1))

\* The entry after position k, the last wrapping to the first.
Succ(path, k) == path[(k % Len(path)) + 1]

ValidCycle(path, width, height) ==
    /\ Len(path) = width * height
    /\ \A k \in DOMAIN path : path[k] \in Grid(width, height)
    /\ \A k, m \in DOMAIN path : k # m => path[k] # path[m]
    /\ \A k \in DOMAIN path : Adjacent(path[k], Succ(path, k), width)

\* The unordered adjacency pairs of a path, the closing pair included.
PathEdges(path) == {{path[k], Succ(path, k)} : k \in DOMAIN path}

\* The unordered edges of an adjacency view.
AdjEdges(adj) ==
    UNION {{{a, adj[a][k]} : k \in DOMAIN adj[a]} : a \in DOMAIN adj}

\* Columns in increasing order, y ascending in even columns and descending in
\* odd columns.
Serpentine(width, height) ==
    [n \in 1..(width * height) |->
        LET x == (n - 1) \div height
            r == (n - 1) % height
        IN  <<x, IF x % 2 = 0 THEN r ELSE height - 1 - r>>]

\* The same tour from the same first cell in the opposite direction.
Backwards(path) ==
    [k \in 1..Len(path) |-> IF k = 1 THEN path[1] ELSE path[Len(path) + 2 - k]]

EvenGrid(st) ==
    /\ st.width >= 2 /\ st.height >= 2
    /\ st.width % 2 = 0 /\ st.height % 2 = 0

\* The cells reachable from `seen` along the adjacency view.
RECURSIVE Component(_, _)
Component(adj, seen) ==
    LET more == seen \cup {adj[a][k] : a \in seen, k \in 1..2}
    IN  IF more = seen THEN seen ELSE Component(adj, more)

\* The adjacency view is one cycle through every cell of the grid.
HamiltonianAdj(adj, width, height) ==
    /\ DOMAIN adj = Grid(width, height)
    /\ \A a \in DOMAIN adj :
          /\ Len(adj[a]) = 2
          /\ adj[a][1] # adj[a][2]
          /\ \A k \in 1..2 :
                /\ adj[a][k] \in DOMAIN adj
                /\ InList(adj[adj[a][k]], a)
                /\ Adjacent(a, adj[a][k], width)
    /\ Component(adj, {<<0, 0>>}) = Grid(width, height)

\* The flip loop has finished attempt i + 1 (report) or i attempts (draw, done).
AfterAttempt(st) ==
    \/ st.pc = "report"
    \/ st.pc = "draw" /\ st.i > 0
    \/ st.pc = "done" /\ st.flips > 0

(***************************************************************************)
(* C1: the path returned by generate_cycle for even width, height >= 2 and *)
(* any flip count and draws has width*height entries, all distinct grid    *)
(* cells, consecutive entries (last to first included) cylindrically       *)
(* adjacent.                                                               *)
(***************************************************************************)
C1_ReturnedPathValid ==
    (run.pc = "done" /\ EvenGrid(run)) =>
        ValidCycle(run.path, run.width, run.height)

\* A 4x4 run returns after MaxFlips attempts, the last of them rolled back.
C1_Witness ==
    /\ run.pc = "done" /\ run.width = 4 /\ run.height = 4
    /\ run.flips = MaxFlips /\ run.i = MaxFlips
    /\ run.edges_remove # <<>> /\ ~run.performed

(***************************************************************************)
(* C2: generate_cycle fails with the invalid-dimensions error whenever     *)
(* width or height is odd or <= 0, before any cell is emitted, any         *)
(* progress is reported or any draw is made.                               *)
(***************************************************************************)
InvalidDimensions(st) ==
    \/ st.width % 2 # 0 \/ st.height % 2 # 0
    \/ st.width <= 0 \/ st.height <= 0

C2_InvalidDimensionsRejected ==
    (InvalidDimensions(run) /\ run.pc # "start") =>
        /\ run.pc = "ValueError"
        /\ run.path = <<>> /\ run.out = <<>> /\ run.draws = 0

(***************************************************************************)
(* C4: with flips = 0 and even width, height >= 2 the returned path is the *)
(* serpentine path, ending at (width-1, 0), which is adjacent across the   *)
(* wrap to its first cell (0, 0).                                          *)
(***************************************************************************)
C4_SerpentineWithoutFlips ==
    (run.pc = "done" /\ run.flips = 0 /\ EvenGrid(run)) =>
        /\ run.path = Serpentine(run.width, run.height)
        /\ run.path[1] = <<0, 0>>
        /\ run.path[Len(run.path)] = <<run.width - 1, 0>>
        /\ Adjacent(run.path[Len(run.path)], run.path[1], run.width)

C4_Witness ==
    /\ run.pc = "done" /\ run.flips = 0
    /\ run.width = 4 /\ run.height = 4 /\ Len(run.path) = 16

(***************************************************************************)
(* C5: _random_flips makes exactly K attempts; the success counter stays   *)
(* between 0 and the number of attempts made, never decreases, increases   *)
(* by one exactly on the attempts whose swap is kept, ends <= K, and the   *)
(* cycle is valid at the end.                                              *)
(***************************************************************************)
C5_CounterBounds ==
    /\ run.pc \in {"draw", "verify"} =>
          (run.i <= run.flips /\ run.performed_total \in 0..run.i)
    /\ run.pc = "report" =>
          (run.i < run.flips /\ run.performed_total \in 0..(run.i + 1))
    /\ (run.pc = "done" /\ run.flips > 0) =>
          /\ run.i = run.flips
          /\ run.draws = 2 * run.flips
          /\ run.performed_total \in 0..run.flips
          /\ ValidCycle(run.path, run.width, run.height)
          /\ HamiltonianAdj(run.adj, run.width, run.height)

\* The swap under verification stays in the adjacency view.
SwapKeptStep == run.pc = "verify" /\ run'.adj = run.adj

C5_CounterStep ==
    /\ run'.performed_total >= run.performed_total
    /\ run'.performed_total <= run.performed_total + 1
    /\ (run'.performed_total = run.performed_total + 1) <=> SwapKeptStep
    /\ run'.i >= run.i /\ run'.i <= run.i + 1
    /\ (run'.i = run.i + 1) <=> (run.pc = "report")

C5_FlipCount == [](C5_CounterBounds) /\ [][C5_CounterStep]_vars

\* All K = MaxFlips attempts are over and the last one was rolled back on a
\* grid other than 4x4.
C5_Witness ==
    /\ run.pc = "done" /\ run.flips = MaxFlips /\ run.i = run.flips
    /\ run.width # run.height
    /\ run.edges_remove # <<>> /\ run.performed_total < run.flips

(***************************************************************************)
(* C6: the returned path and the draws consumed do not depend on the       *)
(* progress and verbose flags.  The twin run has both flags off; two runs  *)
(* with any flags agree because each agrees with the twin.                 *)
(***************************************************************************)
C6_ReportingNoEffect ==
    /\ twin.path = run.path
    /\ twin.draws = run.draws
    /\ twin.pc = run.pc
    /\ (run.pc = "done" => twin.adj = run.adj)

\* A run that reported everything returns with the reversed tour, the twin
\* having reported nothing.
C6_Witness ==
    /\ run.pc = "done" /\ run.flips > 0 /\ run.progress /\ run.verbose
    /\ run.out # <<>> /\ twin.out = <<>> /\ twin.pc = "done"
    /\ run.path # Serpentine(run.width, run.height)

InitialCycleBuilt(st) == st.pc = "draw" /\ st.i = 0

ClosedFullPath(st) ==
    /\ Len(st.path) = st.width * st.height
    /\ st.path[1] = <<0, 0>>
    /\ Adjacent(st.path[Len(st.path)], st.path[1], st.width)

C8_SweepState ==
    /\ EvenGrid(run) => run.pc \notin {"ValueError", "IndexError"}
    /\ (run.pc = "build" /\ EvenGrid(run)) =>
          (run.count = Len(run.path) /\ run.count <= run.total
           /\ run.draws = 0)
    /\ (InitialCycleBuilt(run) /\ EvenGrid(run)) =>
          /\ run.draws = 0
          /\ ClosedFullPath(run)
          /\ run.path = Serpentine(run.width, run.height)

C8_SweepStep ==
    (run.pc = "build" /\ run.flips > 0 /\ EvenGrid(run)) =>
        \/ /\ run.count < run.total
           /\ run'.pc = "build"
           /\ run'.count = run.count + 1
        \/ /\ run.count = run.total
           /\ InitialCycleBuilt(run')

C9_RotationKeepsEdges ==
    rot.has =>
        /\ PathEdges(rot.path) = PathEdges(run.path)
        /\ Len(rot.path) = Len(run.path)
        /\ Range(rot.path) = Range(run.path)

C9_Witness ==
    /\ rot.has /\ rot.reverse /\ rot.offset > 1
    /\ Len(rot.path) = 16 /\ rot.path # run.path

(***************************************************************************)
(* C10: after every flip attempt (kept, rolled back or skipped) the        *)
(* adjacency view is a single Hamiltonian cycle: two distinct neighbours   *)
(* per cell, symmetric, every edge cylindrically adjacent, one cycle       *)
(* through all cells.                                                      *)
(***************************************************************************)
C10_AdjacencyIsOneCycle ==
    AfterAttempt(run) => HamiltonianAdj(run.adj, run.width, run.height)

\* An attempt on the 4x4 grid has just been rolled back.
C10_Witness ==
    /\ run.pc = "report" /\ run.edges_remove # <<>> /\ ~run.performed
    /\ run.width = 4 /\ run.height = 4
(***************************************************************************)
(* The square of the current attempt                                       *)
(***************************************************************************)
SqV0(st) == <<st.ax, st.ay>>
SqV1(st) == <<(st.ax + 1) % st.width, st.ay>>
SqV2(st) == <<st.ax, st.ay + 1>>
SqV3(st) == <<(st.ax + 1) % st.width, st.ay + 1>>

\* The two rows of the square and its two columns, as unordered edges.
SqRows(st) == {{SqV0(st), SqV1(st)}, {SqV2(st), SqV3(st)}}
SqCols(st) == {{SqV0(st), SqV2(st)}, {SqV1(st), SqV3(st)}}

\* The attempt that has just been decided proposed a swap and reverted it.
RolledBack(st) ==
    st.pc = "report" /\ st.edges_remove # <<>> /\ ~st.performed

(***************************************************************************)
(* C11: a proposed swap is kept if and only if the walk from v0 over the   *)
(* swapped adjacency returns to v0 after exactly width*height distinct     *)
(* cells, that is, exactly when the swapped adjacency is one cycle through *)
(* all cells; a swap that splits the tour is never kept.                   *)
(***************************************************************************)
C11_VerifyStep ==
    run.pc = "verify" =>
        LET one == HamiltonianAdj(run.adj, run.width, run.height)
            walk == adj_to_path(run.adj, SqV0(run))
        IN  /\ one <=> (Len(walk) = run.width * run.height
                        /\ Cardinality(Range(walk)) = Len(walk))
            /\ run'.performed <=> one
            /\ (run'.adj = run.adj) <=> one
            /\ (run'.performed_total = run.performed_total + 1) <=> one

C11_KeptIffOneCycle == [][C11_VerifyStep]_vars

\* A swap on a 2-wide grid split the tour and was reverted.
C11_Witness ==
    /\ RolledBack(run) /\ run.width = 2 /\ run.height = 4
    /\ run.performed_total = 0

(***************************************************************************)
(* C12: a failed flip attempt leaves the adjacency view as it was before   *)
(* the attempt: nothing is modified when the square is not flippable, and  *)
(* after a swap that splits the tour the added edges are removed and the   *)
(* removed edges restored, so the set of edges is the one before.          *)
(***************************************************************************)
C12_FailedAttemptRestores ==
    (run.pc = "report" /\ ~run.performed) =>
        /\ AdjEdges(run.adj) = AdjEdges(run.before)
        /\ DOMAIN run.adj = DOMAIN run.before
        /\ \A a \in DOMAIN run.adj :
              /\ Len(run.adj[a]) = Len(run.before[a])
              /\ Range(run.adj[a]) = Range(run.before[a])
        /\ run.edges_remove = <<>> => run.adj = run.before

\* A reverted swap: the edges are those before, the lists are reordered.
C12_Witness ==
    /\ RolledBack(run)
    /\ run.adj # run.before
    /\ AdjEdges(run.adj) = AdjEdges(run.before)

(***************************************************************************)
(* C13: for an anchor (x, y), 0 <= x < width, 0 <= y <= height-2, a swap   *)
(* is proposed only when both rows of the square are edges and both        *)
(* columns are not (rows replaced by columns), or both columns are edges   *)
(* and both rows are not (columns replaced by rows); otherwise no edge is  *)
(* changed.  A kept swap changes exactly these four edges.                 *)
(***************************************************************************)
C13_DrawStep ==
    (run.pc = "draw" /\ run'.pc # "done") =>
        LET E == AdjEdges(run.adj)
            rows == SqRows(run')
            cols == SqCols(run')
            rowsToCols == rows \subseteq E /\ cols \cap E = {}
            colsToRows == cols \subseteq E /\ rows \cap E = {}
        IN  /\ run'.ax \in 0..(run.width - 1)
            /\ run'.ay \in 0..(run.height - 2)
            /\ rowsToCols =>
                  (run'.pc = "verify"
                   /\ AdjEdges(run'.adj) = (E \ rows) \cup cols)
            /\ colsToRows =>
                  (run'.pc = "verify"
                   /\ AdjEdges(run'.adj) = (E \ cols) \cup rows)
            /\ (~rowsToCols /\ ~colsToRows) =>
                  (run'.pc = "report" /\ run'.adj = run.adj)

C13_KeptState ==
    (run.pc = "report" /\ run.performed) =>
        LET E == AdjEdges(run.before)
            rem == {{run.edges_remove[k][1], run.edges_remove[k][2]} : k \in 1..2}
            add == {{run.edges_add[k][1], run.edges_add[k][2]} : k \in 1..2}
        IN  AdjEdges(run.adj) = (E \ rem) \cup add

C13_SwapProposal == [](C13_KeptState) /\ [][C13_DrawStep]_vars

\* A proposed swap applied and not yet verified: the columns of the square
\* were replaced by its rows.
C13_Witness ==
    /\ run.pc = "verify"
    /\ SqRows(run) \subseteq AdjEdges(run.adj)
    /\ SqCols(run) \cap AdjEdges(run.adj) = {}
    /\ SqCols(run) \subseteq AdjEdges(run.before)

(***************************************************************************)
(* C14: with flips > 0 the returned path is one traversal of the final     *)
(* adjacency view, made after all K attempts from the original first cell: *)
(* its first entry is (0, 0) and its consecutive pairs, last-to-first      *)
(* included, are exactly the edges of the final adjacency view.            *)
(***************************************************************************)
C14_PathIsFinalTraversal ==
    (run.pc = "done" /\ run.flips > 0 /\ EvenGrid(run)) =>
        /\ run.i = run.flips
        /\ run.path[1] = <<0, 0>>
        /\ run.path[2] = run.adj[<<0, 0>>][1]
        /\ \A k \in 2..(Len(run.path) - 1) :
              /\ InList(run.adj[run.path[k]], run.path[k + 1])
              /\ run.path[k + 1] # run.path[k - 1]
        /\ PathEdges(run.path) = AdjEdges(run.adj)

\* The final view sends the traversal from (0,0) towards the last column.
C14_Witness ==
    /\ run.pc = "done" /\ run.flips > 0
    /\ run.width = 4 /\ run.height = 4
    /\ run.adj[<<0, 0>>][1] = <<3, 0>> /\ run.path[2] = <<3, 0>>

(***************************************************************************)
(* C15: during serpentine construction with progress enabled the reported  *)
(* count starts at 1, grows by exactly one with each emitted cell, never   *)
(* decreases and ends at width*height; the n-th report follows the n-th    *)
(* appended cell.                                                          *)
(***************************************************************************)
GenReports(n, total) == [k \in 1..n |-> <<"generating", k, total>>]

C15_ProgressCounts ==
    (run.progress /\ EvenGrid(run)) =>
        /\ run.pc = "build" =>
              /\ run.count = Len(run.path)
              /\ run.out = GenReports(Len(run.path), run.width * run.height)
        /\ run.pc \in {"draw", "verify", "report", "done"} =>
              /\ Len(run.out) > run.total
              /\ SubSeq(run.out, 1, run.total)
                    = GenReports(run.width * run.height, run.width * run.height)
              /\ run.out[run.total + 1] = <<"newline">>

C15_Witness ==
    /\ run.progress /\ run.pc = "done" /\ run.flips = 0
    /\ run.width = 2 /\ run.height = 4
    /\ Len(run.out) = 9 /\ run.out[8] = <<"generating", 8, 8>>

(***************************************************************************)
(* C16: when every one of the K > 0 flip attempts fails, the returned path *)
(* is identical, cell for cell and in the same direction, to the path      *)
(* returned with flips = 0.                                                *)
(***************************************************************************)
C16_AllFailedSamePath ==
    (run.pc = "done" /\ run.flips > 0 /\ EvenGrid(run)
       /\ run.performed_total = 0) =>
        run.path = Serpentine(run.width, run.height)

(***************************************************************************)
(* C17: every call of _adj_to_path made by the program terminates: from    *)
(* every adjacency state it is called on, the speculative state after a    *)
(* splitting swap included, the walk returns to its start cell after at    *)
(* most width*height steps without revisiting a cell.                      *)
(***************************************************************************)
WalkCloses(adj, start, n) ==
    LET p == adj_to_path(adj, start)
        last == p[Len(p)]
        prev == IF Len(p) = 1 THEN NoPoint ELSE p[Len(p) - 1]
        nbrs == adj[last]
    IN  /\ Len(p) <= n
        /\ Cardinality(Range(p)) = Len(p)
        /\ Len(nbrs) = 2
        /\ start = (IF nbrs[1] # prev THEN nbrs[1] ELSE nbrs[2])

C17_TraversalTerminates ==
    /\ run.pc = "verify" =>
          WalkCloses(run.adj, SqV0(run), run.width * run.height)
    /\ (run.pc = "draw" /\ run.i >= run.flips) =>
          WalkCloses(run.adj, run.path[1], run.width * run.height)

\* The walk over a split tour closes before it has seen every cell.
C17_Witness ==
    /\ run.pc = "verify" /\ run.width = 4 /\ run.height = 4
    /\ Len(adj_to_path(run.adj, SqV0(run))) < 16
    /\ ~HamiltonianAdj(run.adj, run.width, run.height)

(***************************************************************************)
(* C19: with flips = 0 generate_cycle builds no adjacency view, consumes   *)
(* no random draw and returns the same path for every seed.                *)
(***************************************************************************)
C19_NoFlipsNoRandomness ==
    run.flips = 0 =>
        /\ run.adj = <<>> /\ run.before = <<>>
        /\ run.draws = 0
        /\ run.pc \notin {"draw", "verify", "report"}
        /\ run.pc = "done" =>
              run.path = (IF EvenGrid(run)
                          THEN Serpentine(run.width, run.height) ELSE <<>>)

C19_Witness ==
    /\ run.pc = "done" /\ run.flips = 0 /\ run.adj = <<>>
    /\ run.width = 2 /\ run.height = 4 /\ Len(run.path) = 8

====
